---- MODULE Spec2Model ----
(***************************************************************************)
(* Model of src/text.rs: the styled-text data model (Span, Spans, Text)    *)
(* and the word-wrapping engine WrappedText.                                *)
(*                                                                         *)
(* A string is modelled as the sequence of its graphemes.  Every grapheme  *)
(* of the alphabet is a single code point, so a `char` index is an index   *)
(* into that sequence, while a byte index is a sum of GBytes.              *)
(***************************************************************************)
EXTENDS Integers, Sequences, FiniteSets, TLC

(***************************************************************************)
(* Bounds of the model.                                                    *)
(***************************************************************************)
MaxWidth == 2   \* widths 0..MaxWidth are given to WrappedText::new
MaxLen   == 3   \* graphemes fed to one engine, over all its source lines
MaxSpans == 2   \* spans in one source line
MaxFeeds == 2   \* source lines fed to one engine
MaxLines == 8   \* output lines after which the model stops stepping

(***************************************************************************)
(* Graphemes.  unicode-width and unicode-segmentation are external crates; *)
(* the table gives their answers for the six code points used.             *)
(***************************************************************************)
NBSP    == "NBSP"      \* U+00A0, 2 bytes, 1 column, White_Space
NL      == "\n"        \* U+000A, 1 byte, 0 columns (control), White_Space
SP      == " "         \* U+0020
CJK     == "CJK"       \* e.g. U+4E16, 3 bytes, 2 columns
EACUTE  == "EACUTE"    \* U+00E9, 2 bytes, 1 column
Graphemes == {"a", SP, NL, NBSP, CJK, EACUTE}

\* UnicodeWidthStr::width of one grapheme
GWidth(g) == CASE g = CJK -> 2 [] g = NL -> 0 [] OTHER -> 1

\* length of the grapheme's UTF-8 encoding
GBytes(g) == CASE g = CJK -> 3 [] g \in {NBSP, EACUTE} -> 2 [] OTHER -> 1

\* grapheme.chars().all(char::is_whitespace)
IsWhitespace(g) == g \in {SP, NL, NBSP}

U16Max == 65535
saturating_add(a, b) == IF a + b > U16Max THEN U16Max ELSE a + b
saturating_sub(a, b) == IF a < b THEN 0 ELSE a - b

RECURSIVE SumWidth(_)
\* UnicodeWidthStr::width of a string: the sum over its code points
SumWidth(s) == IF s = <<>> THEN 0 ELSE GWidth(Head(s)) + SumWidth(Tail(s))

RECURSIVE ByteLen(_)
ByteLen(s) == IF s = <<>> THEN 0 ELSE GBytes(Head(s)) + ByteLen(Tail(s))

(***************************************************************************)
(* Style: an opaque value carried by a Span (crate::style::Style).         *)
(***************************************************************************)
StyleDefault == [fg |-> "None", bg |-> "None"]
StyleRed     == [fg |-> "Red",  bg |-> "None"]
Styles       == {StyleDefault, StyleRed}

(***************************************************************************)
(* Span { content: Cow<str>, style }.  owned is the Cow variant.           *)
(***************************************************************************)
Span(content, style, owned) == [content |-> content, style |-> style, owned |-> owned]

\* Span::width
SpanWidth(span) == SumWidth(span.content)

RECURSIVE SpansWidth(_)
\* Spans::width
SpansWidth(spans) ==
    IF spans = <<>> THEN 0 ELSE SpanWidth(Head(spans)) + SpansWidth(Tail(spans))

RECURSIVE TrimStartStr(_)
\* str::trim_start: drops the leading White_Space code points
TrimStartStr(s) ==
    IF s # <<>> /\ IsWhitespace(Head(s)) THEN TrimStartStr(Tail(s)) ELSE s

\* a trim_start that copies the content without trimming it
trim_start_noop(span) == [span EXCEPT !.owned = TRUE]

\* Span::trim_start: the content becomes an owned copy of the trimmed str
trim_start(span) == [span EXCEPT !.content = TrimStartStr(span.content), !.owned = TRUE]

\* a split_at_in_place whose tail is built by Span::raw: the tail loses the
\* style of the span
split_at_in_place_raw_tail(span, mid) ==
    LET n == Len(span.content)
        cuts == IF span.owned
                THEN {k \in 0..(n - 1) : k = mid}
                ELSE {k \in 0..n : ByteLen(SubSeq(span.content, 1, k)) = mid}
    IN  IF cuts = {}
        THEN [ok |-> FALSE, head |-> span, tail |-> span]
        ELSE LET k == CHOOSE k \in cuts : TRUE
             IN  [ok   |-> TRUE,
                  head |-> [span EXCEPT !.content = SubSeq(span.content, 1, k)],
                  tail |-> [span EXCEPT !.content = SubSeq(span.content, k + 1, n),
                                        !.style = StyleDefault]]

\* Span::split_at_in_place(mid).  Owned: mid is a char index and must name an
\* existing char (nth(mid).unwrap()).  Borrowed: mid is a byte index and must
\* be a char boundary no larger than the byte length (str::split_at).
\* ok = FALSE is the panic.
split_at_in_place(span, mid) ==
    LET n == Len(span.content)
        cuts == IF span.owned
                THEN {k \in 0..(n - 1) : k = mid}
                ELSE {k \in 0..n : ByteLen(SubSeq(span.content, 1, k)) = mid}
    IN  IF cuts = {}
        THEN [ok |-> FALSE, head |-> span, tail |-> span]
        ELSE LET k == CHOOSE k \in cuts : TRUE
             IN  [ok   |-> TRUE,
                  head |-> [span EXCEPT !.content = SubSeq(span.content, 1, k)],
                  tail |-> [span EXCEPT !.content = SubSeq(span.content, k + 1, n)]]

(***************************************************************************)
(* WrappedText                                                              *)
(***************************************************************************)
\* Option<usize>: <<>> is None, <<b>> is Some(b)
None == <<>>
Some(b) == <<b>>

\* WrappedText::new(width).trim(trim)
New(w, t) ==
    [text |-> <<>>, trim |-> t, width |-> w, column |-> 0, last_word_end |-> 0,
     was_whitespace |-> FALSE, was_linebreak |-> FALSE]

\* a push_span that inserts the span at the front of the last line
push_span_front(wt, span) ==
    LET lines == IF wt.text = <<>> THEN << <<>> >> ELSE wt.text
        last_line == Len(lines)
    IN  [wt EXCEPT !.text = [lines EXCEPT ![last_line] = <<span>> \o @]]

\* WrappedText::push_span
push_span(wt, span) ==
    LET lines == IF wt.text = <<>> THEN << <<>> >> ELSE wt.text
        last_line == Len(lines)
    IN  [wt EXCEPT !.text = [lines EXCEPT ![last_line] = Append(@, span)]]

\* WrappedText::start_new_line
start_new_line(wt) ==
    [wt EXCEPT !.column = 0, !.last_word_end = 0, !.text = Append(@, <<>>)]

RECURSIVE ScanFromNoSkip(_, _, _, _)
\* the grapheme loop without its `grapheme_width > self.width` test: a grapheme
\* wider than the width is measured like any other
ScanFromNoSkip(content, i, c, span_position) ==
    IF i > Len(content) THEN c
    ELSE
      LET grapheme == content[i]
          grapheme_width == GWidth(grapheme)
      IN
      IF ~c.was_linebreak /\ grapheme = NL
      THEN [c EXCEPT !.breakpoint = Some(saturating_sub(c.last_word_end, span_position) + 1),
                     !.was_linebreak = TRUE]
      ELSE
        LET is_whitespace == IsWhitespace(grapheme)
            lwe == IF ~c.was_whitespace /\ grapheme # NBSP
                   THEN c.column ELSE c.last_word_end
            next_column == saturating_add(c.column, grapheme_width)
        IN  IF next_column > c.width
            THEN [c EXCEPT !.last_word_end = lwe,
                           !.breakpoint = Some(saturating_sub(lwe, span_position))]
            ELSE ScanFromNoSkip(content, i + 1,
                                [c EXCEPT !.last_word_end = lwe,
                                          !.column = next_column,
                                          !.was_whitespace = is_whitespace],
                                span_position)

RECURSIVE ScanFrom(_, _, _, _)
\* the `for grapheme in graphemes(span.content)` loop of push_spans, from the
\* i-th grapheme; c holds the cursor fields of self and the local breakpoint
ScanFrom(content, i, c, span_position) ==
    IF i > Len(content) THEN c
    ELSE
      LET grapheme == content[i]
          grapheme_width == GWidth(grapheme)
      IN
      IF grapheme_width > c.width THEN ScanFrom(content, i + 1, c, span_position)
      ELSE IF ~c.was_linebreak /\ grapheme = NL
      THEN [c EXCEPT !.breakpoint = Some(saturating_sub(c.last_word_end, span_position) + 1),
                     !.was_linebreak = TRUE]
      ELSE
        LET is_whitespace == IsWhitespace(grapheme)
            lwe == IF ~c.was_whitespace /\ grapheme # NBSP
                   THEN c.column ELSE c.last_word_end
            next_column == saturating_add(c.column, grapheme_width)
        IN  IF next_column > c.width
            THEN [c EXCEPT !.last_word_end = lwe,
                           !.breakpoint = Some(saturating_sub(lwe, span_position))]
            ELSE ScanFrom(content, i + 1,
                          [c EXCEPT !.last_word_end = lwe,
                                    !.column = next_column,
                                    !.was_whitespace = is_whitespace],
                          span_position)

\* One iteration of `while let Some(mut span) = pending_span.take()` in
\* push_spans.  iter is the rest of the source line.  The result holds the
\* engine, the next pending_span (<<>> is None), the rest of iter and whether
\* split_at_in_place panicked.
PushSpansIter(wt, span0, iter) ==
    LET span_position == wt.column
        span == IF wt.column = 0 /\ wt.trim THEN trim_start(span0) ELSE span0
        c == ScanFrom(span.content, 1,
                      [width |-> wt.width, column |-> wt.column,
                       last_word_end |-> wt.last_word_end,
                       was_whitespace |-> wt.was_whitespace,
                       was_linebreak |-> wt.was_linebreak,
                       breakpoint |-> None],
                      span_position)
        wt1 == [wt EXCEPT !.column = c.column, !.last_word_end = c.last_word_end,
                          !.was_whitespace = c.was_whitespace,
                          !.was_linebreak = c.was_linebreak]
    IN  IF c.breakpoint # None
        THEN LET b == c.breakpoint[1] IN
             IF b > 0
             THEN LET sp == split_at_in_place(span, b)
                  IN  IF sp.ok
                      THEN [wt |-> start_new_line(push_span(wt1, sp.head)),
                            pending_span |-> <<sp.tail>>, iter |-> iter, panic |-> FALSE]
                      ELSE [wt |-> wt1, pending_span |-> <<>>, iter |-> iter,
                            panic |-> TRUE]
             ELSE [wt |-> start_new_line(wt1), pending_span |-> <<span>>,
                   iter |-> iter, panic |-> FALSE]
        ELSE [wt |-> push_span(wt1, span),
              pending_span |-> IF iter = <<>> THEN <<>> ELSE <<Head(iter)>>,
              iter |-> IF iter = <<>> THEN <<>> ELSE Tail(iter),
              panic |-> FALSE]

RECURSIVE PushSpansRun(_, _, _)
\* push_spans run to its end from pending span `span`: the engine it leaves and
\* how the call ended.  The loop reads nothing of self.text, so an iteration
\* that leaves the pending span, the iterator and the cursor as they were is
\* repeated for ever: "diverged".
PushSpansRun(wt, span, iter) ==
    LET r == PushSpansIter(wt, span, iter) IN
    IF r.panic THEN [wt |-> r.wt, status |-> "panic"]
    ELSE IF r.pending_span = <<>> THEN [wt |-> r.wt, status |-> "done"]
    ELSE IF /\ r.pending_span = <<span>>
            /\ r.iter = iter
            /\ [r.wt EXCEPT !.text = wt.text] = wt
         THEN [wt |-> r.wt, status |-> "diverged"]
    ELSE PushSpansRun(r.wt, r.pending_span[1], r.iter)

RECURSIVE ExtendRun(_, _)
\* <WrappedText as Extend<Spans>>::extend over the whole document doc
ExtendRun(wt, doc) ==
    IF doc = <<>> THEN [wt |-> wt, status |-> "done"]
    ELSE LET spans == Head(doc)
             wt1 == start_new_line(wt)
             r == IF spans = <<>> THEN [wt |-> wt1, status |-> "done"]
                  ELSE PushSpansRun(wt1, Head(spans), Tail(spans))
         IN  IF r.status = "done" THEN ExtendRun(r.wt, Tail(doc)) ELSE r

\* Text::from(WrappedText): a fresh engine of width w fed the document doc
Wrap(doc, w, t) == ExtendRun(New(w, t), doc)

(***************************************************************************)
(* Style::patch, Text and Span::styled_graphemes                            *)
(***************************************************************************)
\* the styles a caller hands to Text::styled, Text::patch_style and
\* Span::styled_graphemes: each attribute unset ("None") or set
TextStyles == [fg : {"None", "Red", "Yellow"}, bg : {"None", "Black"}]

\* Style::patch of crate::style, base.patch(other): attribute-wise override
patch(base, other) ==
    [fg |-> IF other.fg # "None" THEN other.fg ELSE base.fg,
     bg |-> IF other.bg # "None" THEN other.bg ELSE base.bg]

RECURSIVE SplitNL(_)
\* str::split('\n'): the pieces between the separators, the last one included
\* also when it is empty
SplitNL(s) ==
    LET at == {k \in 1..Len(s) : s[k] = NL} IN
    IF at = {} THEN <<s>>
    ELSE LET k == CHOOSE k \in at : \A l \in at : k <= l
         IN  <<SubSeq(s, 1, k - 1)>> \o SplitNL(SubSeq(s, k + 1, Len(s)))

RECURSIVE Lines(_)
\* str::lines: the lines of s without their "\n"; the final line ending is
\* optional, so no empty last line follows it
Lines(s) ==
    LET at == {k \in 1..Len(s) : s[k] = NL} IN
    IF s = <<>> THEN <<>>
    ELSE IF at = {} THEN <<s>>
    ELSE LET k == CHOOSE k \in at : \A l \in at : k <= l
         IN  <<SubSeq(s, 1, k - 1)>> \o Lines(SubSeq(s, k + 1, Len(s)))

\* Text::raw(content): one line per line of content, each one unstyled span;
\* owned is the Cow variant of content.into()
Raw(content, owned) ==
    LET l == Lines(content) IN [i \in 1..Len(l) |-> <<Span(l[i], StyleDefault, owned)>>]

\* a patch_style that patches the other way round, style.patch(span.style)
patch_style_reversed(t, style) ==
    [i \in 1..Len(t) |->
        [j \in 1..Len(t[i]) |-> [t[i][j] EXCEPT !.style = patch(style, @)]]]

\* Text::patch_style
patch_style(t, style) ==
    [i \in 1..Len(t) |->
        [j \in 1..Len(t[i]) |-> [t[i][j] EXCEPT !.style = patch(@, style)]]]

\* Text::styled
Styled(content, owned, style) == patch_style(Raw(content, owned), style)

RECURSIVE MaxOf(_)
\* Iterator::max over a sequence of usize, None (<<>>) when it is empty
MaxOf(ns) ==
    IF ns = <<>> THEN None
    ELSE LET m == MaxOf(Tail(ns))
         IN  IF m # None /\ m[1] > Head(ns) THEN m ELSE Some(Head(ns))

\* Text::width
TextWidth(t) ==
    LET m == MaxOf([i \in 1..Len(t) |-> SpansWidth(t[i])])
    IN  IF m = None THEN 0 ELSE m[1]

\* Text::height
TextHeight(t) == Len(t)

\* a styled_graphemes without its filter
styled_graphemes_unfiltered(span, base_style) ==
    [i \in 1..Len(span.content) |->
        [symbol |-> span.content[i], style |-> patch(base_style, span.style)]]

\* Span::styled_graphemes
styled_graphemes(span, base_style) ==
    SelectSeq([i \in 1..Len(span.content) |->
                  [symbol |-> span.content[i], style |-> patch(base_style, span.style)]],
              LAMBDA g : g.symbol # NL)

(***************************************************************************)
(* State                                                                    *)
(***************************************************************************)
VARIABLES
    self,          \* the WrappedText
    pending_span,  \* push_spans: Option<Span>, <<>> is None
    iter,          \* push_spans: the spans of the source line not yet taken
    pc,            \* "extend" (between source lines), "push_spans", "panic"
    fed,           \* history: the source lines taken by extend so far
    text,          \* a Text built and patched by its own API
    op             \* history: the last call on text, its arguments and result

vars == <<self, pending_span, iter, pc, fed, text, op>>

(***************************************************************************)
(* Inputs                                                                   *)
(***************************************************************************)
Strings(n) == UNION {[1..k -> Graphemes] : k \in 0..n}

RECURSIVE LineLen(_)
\* graphemes in a source line
LineLen(spans) == IF spans = <<>> THEN 0 ELSE Len(Head(spans).content) + LineLen(Tail(spans))

RECURSIVE DocLen(_)
DocLen(doc) == IF doc = <<>> THEN 0 ELSE LineLen(Head(doc)) + DocLen(Tail(doc))

RECURSIVE Pieces(_, _)
\* the ways to cut the string s into k consecutive, possibly empty, pieces
Pieces(s, k) ==
    IF k = 1 THEN {<<s>>}
    ELSE UNION {{<<SubSeq(s, 1, i)>> \o rest : rest \in Pieces(SubSeq(s, i + 1, Len(s)), k - 1)} :
                i \in 0..Len(s)}

\* The source lines (Spans) holding the string s: no span, one span of either
\* style, or up to MaxSpans spans cut at any places, unstyled and red in turn
\* as in tests::text_can_be_wrapped; all borrowed (from &str) or all owned
\* (from String).
LinesOf(s) ==
    (IF s = <<>> THEN {<<>>} ELSE {}) \cup
    {<<Span(s, st, o)>> : st \in Styles, o \in BOOLEAN} \cup
    UNION {{[i \in 1..k |-> Span(p[i], IF i % 2 = 1 THEN StyleDefault ELSE StyleRed, o)] :
              p \in Pieces(s, k), o \in BOOLEAN} : k \in 2..MaxSpans}

\* the source lines of at most n graphemes
SourceLines(n) == UNION {LinesOf(s) : s \in Strings(n)}

\* op before any call on text
NoOp ==
    [name |-> "default", content |-> <<>>, owned |-> FALSE, style |-> StyleDefault,
     before |-> <<>>, at |-> <<>>, result |-> <<>>]

Init ==
    /\ \E w \in 0..MaxWidth, t \in BOOLEAN : self = New(w, t)
    /\ pending_span = <<>>
    /\ iter = <<>>
    /\ pc = "extend"
    /\ fed = <<>>
    /\ text = <<>>
    /\ op = NoOp

\* <WrappedText as Extend<Spans>>::extend, one round of `for spans in iter`
\* with the next source line of the caller's iterator: start_new_line, then
\* push_spans takes the first span of the line.
Extend ==
    /\ pc = "extend"
    /\ Len(fed) < MaxFeeds
    /\ \E spans \in SourceLines(MaxLen - DocLen(fed)) :
        /\ self' = start_new_line(self)
        /\ pending_span' = IF spans = <<>> THEN <<>> ELSE <<Head(spans)>>
        /\ iter' = IF spans = <<>> THEN <<>> ELSE Tail(spans)
        /\ pc' = IF spans = <<>> THEN "extend" ELSE "push_spans"
        /\ fed' = Append(fed, spans)
    /\ UNCHANGED <<text, op>>

\* push_spans: one iteration of `while let Some(mut span) = pending_span.take()`;
\* when pending_span becomes None the call returns to extend.
PushSpans ==
    /\ pc = "push_spans"
    /\ Len(self.text) < MaxLines
    /\ LET r == PushSpansIter(self, pending_span[1], iter) IN
        /\ self' = r.wt
        /\ pending_span' = r.pending_span
        /\ iter' = r.iter
        /\ pc' = IF r.panic THEN "panic"
                 ELSE IF r.pending_span = <<>> THEN "extend" ELSE "push_spans"
    /\ UNCHANGED <<fed, text, op>>

Next == Extend \/ PushSpans

Spec == Init /\ [][Next]_vars

(***************************************************************************)
(* Text and Span on their own: a Text is built by Text::raw, Text::styled   *)
(* or Text::from(Spans), patched by Text::patch_style, and its spans are    *)
(* read by Span::styled_graphemes.  The constructor is the first call.  No  *)
(* WrappedText takes part.                                                  *)
(***************************************************************************)
TextInit ==
    /\ self = New(0, TRUE)
    /\ pending_span = <<>>
    /\ iter = <<>>
    /\ pc = "extend"
    /\ fed = <<>>
    /\ text = <<>>
    /\ op = NoOp

\* let text = Text::raw(content)
TextRaw ==
    /\ op = NoOp
    /\ \E content \in Strings(MaxLen), owned \in BOOLEAN :
        /\ text' = Raw(content, owned)
        /\ op' = [NoOp EXCEPT !.name = "raw", !.content = content, !.owned = owned]
    /\ UNCHANGED <<self, pending_span, iter, pc, fed>>

\* let text = Text::styled(content, style)
TextStyled ==
    /\ op = NoOp
    /\ \E content \in Strings(MaxLen), owned \in BOOLEAN, style \in TextStyles :
        /\ text' = Styled(content, owned, style)
        /\ op' = [NoOp EXCEPT !.name = "styled", !.content = content, !.owned = owned,
                              !.style = style]
    /\ UNCHANGED <<self, pending_span, iter, pc, fed>>

\* let text = Text::from(spans)
TextFrom ==
    /\ op = NoOp
    /\ \E spans \in SourceLines(MaxLen) :
        /\ text' = <<spans>>
        /\ op' = [NoOp EXCEPT !.name = "from"]
    /\ UNCHANGED <<self, pending_span, iter, pc, fed>>

\* text.patch_style(style)
PatchStyle ==
    /\ \E style \in TextStyles :
        /\ text' = patch_style(text, style)
        /\ op' = [NoOp EXCEPT !.name = "patch_style", !.style = style, !.before = text]
    /\ UNCHANGED <<self, pending_span, iter, pc, fed>>

\* text.lines[i].0[j].styled_graphemes(base_style).collect()
StyledGraphemes ==
    /\ \E i \in 1..Len(text) : \E j \in 1..Len(text[i]) : \E base_style \in TextStyles :
        op' = [NoOp EXCEPT !.name = "styled_graphemes", !.at = <<i, j>>,
                          !.style = base_style,
                          !.result = styled_graphemes(text[i][j], base_style)]
    /\ UNCHANGED <<text, self, pending_span, iter, pc, fed>>

NextText == TextRaw \/ TextStyled \/ TextFrom \/ PatchStyle \/ StyledGraphemes

SpecText == TextInit /\ [][NextText]_vars

(***************************************************************************)
(* Views of a document used by the properties                               *)
(***************************************************************************)
RECURSIVE LineStr(_)
\* String::from(Spans): the contents of the line's spans, concatenated
LineStr(spans) == IF spans = <<>> THEN <<>> ELSE Head(spans).content \o LineStr(Tail(spans))

RECURSIVE DocStr(_)
\* the contents of all spans of all lines, ignoring line boundaries
DocStr(doc) == IF doc = <<>> THEN <<>> ELSE LineStr(Head(doc)) \o DocStr(Tail(doc))

RECURSIVE Without(_, _)
\* the string s with every grapheme of the set drop removed
Without(s, drop) ==
    IF s = <<>> THEN <<>>
    ELSE (IF Head(s) \in drop THEN <<>> ELSE <<Head(s)>>) \o Without(Tail(s), drop)

\* derive(PartialEq) on Text: contents and styles, whatever the Cow variant
Plain(doc) ==
    [i \in 1..Len(doc) |->
        [j \in 1..Len(doc[i]) |-> [content |-> doc[i][j].content, style |-> doc[i][j].style]]]

Range(s) == {s[i] : i \in 1..Len(s)}

\* the engine is between source lines: every fed line has been wrapped
Wrapped == pc = "extend"

(***************************************************************************)
(* C1: after any sequence of source lines has been fed, every line of the  *)
(* resulting Text has a display width <= the configured width (stated for *)
(* the widths >= 1).                                                       *)
(***************************************************************************)
C1_NoLineExceedsWidth ==
    (Wrapped /\ self.width >= 1) => \A i \in 1..Len(self.text) : SpansWidth(self.text[i]) <= self.width

(***************************************************************************)
(* C2: push_spans terminates.  The loop is deterministic and reads only    *)
(* the pending span, the iterator and the cursor, so it terminates only if *)
(* every iteration that stays in the loop changes one of them.             *)
(***************************************************************************)
LoopState == <<pending_span, iter, [self EXCEPT !.text = <<>>]>>

C2_PushSpansTerminates ==
    [][(pc = "push_spans" /\ pc' = "push_spans") => LoopState' # LoopState]_vars

(***************************************************************************)
(* C3: no wrap operation fails: every break offset that push_spans passes  *)
(* to split_at_in_place is a valid split position, so no call panics       *)
(* (stated for the widths >= 1).                                           *)
(***************************************************************************)
C3_NoPanic == self.width >= 1 => pc # "panic"

(***************************************************************************)
(* C7: a grapheme whose display width exceeds the configured width never   *)
(* appears in the content of any run of any output line (stated for the    *)
(* widths >= 1).                                                           *)
(***************************************************************************)
C7_TooWideDropped ==
    (Wrapped /\ self.width >= 1) => \A g \in Range(DocStr(self.text)) : GWidth(g) <= self.width

(***************************************************************************)
(* C8: no run of the wrapped output contains the line-break marker "\n",   *)
(* with trimming enabled or disabled.                                      *)
(***************************************************************************)
C8_NoNewlineInOutput == Wrapped => NL \notin Range(DocStr(self.text))

(***************************************************************************)
(* C4: the contents of the output, concatenated, are the contents of the   *)
(* input with the line-break markers removed and, when trimming, with      *)
(* leading whitespace of the output lines removed; nothing else is added,  *)
(* removed or reordered.                                                   *)
(***************************************************************************)
RECURSIVE IsLeadingTrimOf(_, _, _)
\* lines, in order, make up the string s once whitespace is taken away from
\* s in front of each line (none where trim is off)
IsLeadingTrimOf(lines, s, trim) ==
    IF lines = <<>> THEN s = <<>>
    ELSE \E k \in 0..(IF trim THEN Len(s) ELSE 0) :
            LET line == LineStr(Head(lines))
                n == Len(line)
            IN  /\ \A i \in 1..k : IsWhitespace(s[i])
                /\ k + n <= Len(s)
                /\ SubSeq(s, k + 1, k + n) = line
                /\ IsLeadingTrimOf(Tail(lines), SubSeq(s, k + n + 1, Len(s)), trim)

C4_ContentPreserved ==
    Wrapped => IsLeadingTrimOf(self.text, Without(DocStr(fed), {NL}), self.trim)

(***************************************************************************)
(* C5: a width-triggered break is placed at a word boundary whenever the   *)
(* line being closed has one: a break between two non-whitespace graphemes *)
(* happens only if the line being closed holds no whitespace and the word  *)
(* cut in two is wider than the width.  Stated for input made of "a" and   *)
(* " " only.                                                               *)
(***************************************************************************)
RECURSIVE LeadingWord(_)
\* the non-whitespace graphemes s starts with
LeadingWord(s) ==
    IF s = <<>> \/ IsWhitespace(Head(s)) THEN <<>> ELSE <<Head(s)>> \o LeadingWord(Tail(s))

RECURSIVE TrailingWord(_)
\* the non-whitespace graphemes s ends with
TrailingWord(s) ==
    IF s = <<>> \/ IsWhitespace(s[Len(s)]) THEN <<>>
    ELSE TrailingWord(SubSeq(s, 1, Len(s) - 1)) \o <<s[Len(s)]>>

C5_BreakAtWordBoundary ==
    [][(/\ pc = "push_spans" /\ pc' = "push_spans"
        /\ Len(self'.text) = Len(self.text) + 1
        /\ Range(DocStr(fed)) \subseteq {"a", SP})
       => LET closed == LineStr(self'.text[Len(self.text)])
              rest == pending_span'[1].content \o LineStr(iter')
              word == TrailingWord(closed) \o LeadingWord(rest)
          IN  (TrailingWord(closed) # <<>> /\ LeadingWord(rest) # <<>>)
              => (SP \notin Range(closed) /\ SumWidth(word) > self.width)]_vars

(***************************************************************************)
(* C6: one source line made of a single run of n >= 1 one-column           *)
(* non-whitespace graphemes, fed to a fresh engine of width W >= 1, gives  *)
(* exactly ceil(n/W) output lines, each of W graphemes except possibly the *)
(* last.                                                                   *)
(***************************************************************************)
C6_HardBreakFallback ==
    (/\ pc \in {"extend", "panic"}
     /\ self.width >= 1
     /\ Len(fed) = 1 /\ Len(fed[1]) = 1
     /\ fed[1][1].content # <<>>
     /\ Range(fed[1][1].content) \subseteq {"a", EACUTE})
    => LET n == Len(fed[1][1].content)
           W == self.width
           lines == (n + W - 1) \div W
       IN  /\ pc = "extend"
           /\ Len(self.text) = lines
           /\ \A i \in 1..Len(self.text) :
                 Len(LineStr(self.text[i])) = IF i < lines THEN W ELSE n - W * (lines - 1)

(***************************************************************************)
(* C9: feeding wrap(D) to a fresh engine of the same width and trim policy *)
(* yields a document equal to wrap(D).                                     *)
(***************************************************************************)
C9_RewrapIdempotent ==
    Wrapped => LET again == Wrap(self.text, self.width, self.trim)
               IN  /\ again.status = "done"
                   /\ Plain(again.wt.text) = Plain(self.text)

(***************************************************************************)
(* C10: feeding A then B to one engine yields the lines of wrapping A in a *)
(* fresh engine followed by the lines of wrapping B in another fresh one.  *)
(***************************************************************************)
C10_Compositional ==
    Wrapped =>
      \A k \in 0..Len(fed) :
        LET A == Wrap(SubSeq(fed, 1, k), self.width, self.trim)
            B == Wrap(SubSeq(fed, k + 1, Len(fed)), self.width, self.trim)
        IN  /\ A.status = "done"
            /\ B.status = "done"
            /\ Plain(self.text) = Plain(A.wt.text \o B.wt.text)

(***************************************************************************)
(* C11: with a configured width of 0 no output line holds more than one    *)
(* character cluster.                                                      *)
(***************************************************************************)
C11_WidthZeroOneCluster ==
    (Wrapped /\ self.width = 0)
    => \A i \in 1..Len(self.text) : Len(LineStr(self.text[i])) <= 1

(***************************************************************************)
(* C12: no line break produced by the engine falls immediately before or   *)
(* immediately after a non-breaking space: when push_spans closes a line,  *)
(* the closed line does not end with NBSP and what is left of the source   *)
(* line does not start with NBSP (where both sides hold a grapheme).       *)
(* Stated for widths of at least 1 and sources without line-break markers. *)
(***************************************************************************)
C12_NoBreakAtNbsp ==
    [][(/\ pc = "push_spans" /\ pc' = "push_spans"
        /\ Len(self'.text) = Len(self.text) + 1
        /\ self.width >= 1
        /\ NL \notin Range(DocStr(fed)))
       => LET closed == LineStr(self'.text[Len(self.text)])
              rest == pending_span'[1].content \o LineStr(iter')
          IN  (closed # <<>> /\ rest # <<>>)
              => (closed[Len(closed)] # NBSP /\ rest[1] # NBSP)]_vars

(***************************************************************************)
(* C16: at the start of processing every fed source line was_linebreak is  *)
(* false: extend hands push_spans an engine whose guard is clear.          *)
(***************************************************************************)
C16_GuardClearedPerSourceLine ==
    Wrapped => ~start_new_line(self).was_linebreak

\* push_spans, text.rs:521-552 of one iteration: the span after the optional
\* trim_start and the breakpoint its scan leaves (<<>> is None)
Scanned(wt, span0) ==
    LET span == IF wt.column = 0 /\ wt.trim THEN trim_start(span0) ELSE span0
        c == ScanFrom(span.content, 1,
                      [width |-> wt.width, column |-> wt.column,
                       last_word_end |-> wt.last_word_end,
                       was_whitespace |-> wt.was_whitespace,
                       was_linebreak |-> wt.was_linebreak,
                       breakpoint |-> None],
                      wt.column)
    IN  [span |-> span, breakpoint |-> c.breakpoint, c |-> c]

(***************************************************************************)
(* C17: splitting the pending run at the break offset b its scan computed  *)
(* (0 < b <= number of characters) gives the same result whether the       *)
(* content is owned or borrowed: the split succeeds, the head holds the    *)
(* first b characters, the tail the remaining ones, and both carry the     *)
(* run's style.                                                            *)
(***************************************************************************)
C17_SplitSameOwnedBorrowed ==
    (pc = "push_spans" /\ self.width >= 1)
    => LET s == Scanned(self, pending_span[1])
           n == Len(s.span.content)
       IN  (s.breakpoint # None /\ s.breakpoint[1] > 0 /\ s.breakpoint[1] <= n)
           => \A o \in BOOLEAN :
                LET b == s.breakpoint[1]
                    sp == split_at_in_place([s.span EXCEPT !.owned = o], b)
                IN  /\ sp.ok
                    /\ sp.head.content = SubSeq(s.span.content, 1, b)
                    /\ sp.tail.content = SubSeq(s.span.content, b + 1, n)
                    /\ sp.head.style = s.span.style
                    /\ sp.tail.style = s.span.style

\* the graphemes of the source line in progress that push_spans still holds
Unprocessed == (IF pending_span = <<>> THEN <<>> ELSE pending_span[1].content) \o LineStr(iter)

(***************************************************************************)
(* C18: with trimming enabled no output line begins with a whitespace      *)
(* character (the first grapheme of every non-empty output line is not     *)
(* whitespace); with trimming disabled no grapheme is removed: as long as   *)
(* push_spans has not panicked, the output followed by what push_spans     *)
(* still holds is the fed text.                                            *)
(***************************************************************************)
C18_TrimLeadingOnly ==
    /\ self.trim
         => \A i \in 1..Len(self.text) :
              LineStr(self.text[i]) # <<>> => ~IsWhitespace(LineStr(self.text[i])[1])
    /\ (~self.trim /\ pc # "panic") => DocStr(self.text) \o Unprocessed = DocStr(fed)

\* a trimming engine has wrapped, onto two or more output lines, a source line
\* that began with whitespace
C18_Witness ==
    /\ Wrapped /\ self.trim /\ self.width >= 1
    /\ Len(fed) = 1 /\ Len(fed[1]) = 1
    /\ fed[1][1].content # <<>> /\ fed[1][1].content[1] = SP
    /\ Len(self.text) >= 2
    /\ DocStr(self.text) # <<>>

\* the cursor fields of self with which the grapheme loop of push_spans starts
Cursor(wt) ==
    [width |-> wt.width, column |-> wt.column, last_word_end |-> wt.last_word_end,
     was_whitespace |-> wt.was_whitespace, was_linebreak |-> wt.was_linebreak,
     breakpoint |-> None]

\* the graphemes of s that are wider than w
TooWide(s, w) == {g \in Range(s) : GWidth(g) > w}

(***************************************************************************)
(* C19: scanning a grapheme wider than the configured width changes no     *)
(* cursor state.  For the span push_spans is about to scan: the cursor     *)
(* (column, last_word_end, was_whitespace, was_linebreak, breakpoint)      *)
(* after scanning up to and including a too-wide grapheme is the cursor    *)
(* after scanning up to the grapheme before it, and the scan of the whole  *)
(* span ends in the cursor and breakpoint it ends in with the too-wide     *)
(* graphemes absent.                                                       *)
(***************************************************************************)
C19_TooWideLeavesCursor ==
    pc = "push_spans"
    => LET span == Scanned(self, pending_span[1]).span
           content == span.content
           c0 == Cursor(self)
       IN  /\ \A i \in 1..Len(content) :
                GWidth(content[i]) > self.width
                => ScanFrom(SubSeq(content, 1, i), 1, c0, self.column)
                   = ScanFrom(SubSeq(content, 1, i - 1), 1, c0, self.column)
           /\ ScanFrom(content, 1, c0, self.column)
              = ScanFrom(Without(content, TooWide(content, self.width)), 1, c0, self.column)

\* push_spans is about to scan a span holding a too-wide grapheme between two
\* graphemes that fit
C19_Witness ==
    /\ pc = "push_spans" /\ self.width >= 1
    /\ \E i \in 2..(Len(pending_span[1].content) - 1) :
          /\ GWidth(pending_span[1].content[i]) > self.width
          /\ GWidth(pending_span[1].content[i - 1]) <= self.width
          /\ GWidth(pending_span[1].content[i + 1]) <= self.width

RECURSIVE StyledLine(_)
\* the graphemes of a line, each with the style of the span that holds it
StyledLine(spans) ==
    IF spans = <<>> THEN <<>>
    ELSE [i \in 1..Len(Head(spans).content) |-> <<Head(spans).content[i], Head(spans).style>>]
         \o StyledLine(Tail(spans))

RECURSIVE StyledDoc(_)
\* the styled graphemes of all lines of a document, in order
StyledDoc(doc) == IF doc = <<>> THEN <<>> ELSE StyledLine(Head(doc)) \o StyledDoc(Tail(doc))

\* the styled graphemes of s that are not whitespace
NonWhitespace(s) == SelectSeq(s, LAMBDA x : ~IsWhitespace(x[1]))

(***************************************************************************)
(* C20: every non-whitespace character of the input appears in the output  *)
(* exactly once, in its original order, in a run of the style of its       *)
(* source run: as long as push_spans has not panicked, the styled          *)
(* non-whitespace graphemes of the output, followed by those of the spans  *)
(* push_spans still holds, are those of the fed source lines.              *)
(***************************************************************************)
C20_NonWhitespaceKeptWithStyle ==
    pc # "panic"
    => NonWhitespace(StyledDoc(self.text)
                     \o StyledLine(pending_span) \o StyledLine(iter))
       = NonWhitespace(StyledDoc(fed))

\* a red run has been broken: both of the first two output lines hold part of it
C20_Witness ==
    /\ Wrapped
    /\ Len(fed) = 1 /\ Len(fed[1]) = 1 /\ fed[1][1].style = StyleRed
    /\ Len(self.text) >= 2
    /\ "a" \in Range(LineStr(self.text[1]))
    /\ "a" \in Range(LineStr(self.text[2]))

(***************************************************************************)
(* C13: Text::patch_style(s) replaces the style of every run by the        *)
(* attribute-wise merge of its previous style with s (an attribute set in  *)
(* s replaces the run's, an attribute unset in s keeps the run's), and     *)
(* changes no content and no line or run count; Text::styled(t, s) is      *)
(* Text::raw(t) followed by patch_style(s).                                *)
(***************************************************************************)
C13_PatchStyleMerges ==
    /\ op.name = "patch_style"
        => /\ Len(text) = Len(op.before)
           /\ \A i \in 1..Len(text) :
                /\ Len(text[i]) = Len(op.before[i])
                /\ \A j \in 1..Len(text[i]) :
                     LET new == text[i][j]
                         old == op.before[i][j]
                     IN  /\ new.content = old.content
                         /\ new.owned = old.owned
                         /\ new.style.fg = IF op.style.fg # "None" THEN op.style.fg
                                           ELSE old.style.fg
                         /\ new.style.bg = IF op.style.bg # "None" THEN op.style.bg
                                           ELSE old.style.bg
    /\ op.name = "styled"
        => text = patch_style(Raw(op.content, op.owned), op.style)

\* a line of an unstyled and a red run, both already patched to a black
\* background, has been patched with a style that sets only the foreground
C13_Witness ==
    /\ op.name = "patch_style"
    /\ op.style = [fg |-> "Yellow", bg |-> "None"]
    /\ Len(text) = 1 /\ Len(text[1]) = 2
    /\ op.before[1][1].style = [fg |-> "None", bg |-> "Black"]
    /\ op.before[1][2].style = [fg |-> "Red", bg |-> "Black"]
    /\ op.before[1][2].content # <<>>
    /\ text[1][2].style = [fg |-> "Yellow", bg |-> "Black"]

RECURSIVE Count(_, _)
\* how often the grapheme g occurs in s
Count(s, g) ==
    IF s = <<>> THEN 0 ELSE (IF Head(s) = g THEN 1 ELSE 0) + Count(Tail(s), g)

RECURSIVE JoinNL(_)
\* the contents of the lines of a document, each followed by "\n"
JoinNL(doc) == IF doc = <<>> THEN <<>> ELSE LineStr(Head(doc)) \o <<NL>> \o JoinNL(Tail(doc))

(***************************************************************************)
(* C14: Text::raw(text) splits text at its line breaks: every line is one  *)
(* run of the default style whose content holds no "\n"; the lines, each   *)
(* followed by "\n", give back the text (with its final "\n" added if it   *)
(* had none); height() is the number of lines of the input, one per "\n"   *)
(* and one more for an unterminated last line; width() is the maximum line *)
(* width, 0 for a document with no lines.                                  *)
(***************************************************************************)
C14_RawSplitsLines ==
    op.name = "raw"
    => LET s == op.content
           unterminated == s # <<>> /\ s[Len(s)] # NL
       IN  /\ \A i \in 1..Len(text) :
                /\ Len(text[i]) = 1
                /\ text[i][1].style = StyleDefault
                /\ NL \notin Range(text[i][1].content)
           /\ JoinNL(text) = IF unterminated THEN s \o <<NL>> ELSE s
           /\ TextHeight(text) = Count(s, NL) + IF unterminated THEN 1 ELSE 0
           /\ \A i \in 1..Len(text) : SpansWidth(text[i]) <= TextWidth(text)
           /\ text # <<>> => \E i \in 1..Len(text) : SpansWidth(text[i]) = TextWidth(text)
           /\ text = <<>> => TextWidth(text) = 0

\* Text::raw of a two-line string whose first line is the wider one
C14_Witness ==
    /\ op.name = "raw"
    /\ Count(op.content, NL) = 1
    /\ TextHeight(text) = 2
    /\ TextWidth(text) = 2
    /\ SpansWidth(text[2]) = 1

(***************************************************************************)
(* C15: Span::styled_graphemes(base) yields the graphemes of the run in    *)
(* their order without the "\n" ones, each with the style whose attributes *)
(* are the run's where the run sets them and the base's where it does not. *)
(***************************************************************************)
C15_StyledGraphemes ==
    op.name = "styled_graphemes"
    => LET span == text[op.at[1]][op.at[2]]
           base == op.style
           kept == Without(span.content, {NL})
       IN  /\ Len(op.result) = Len(kept)
           /\ \A k \in 1..Len(kept) :
                /\ op.result[k].symbol = kept[k]
                /\ op.result[k].style.fg = IF span.style.fg # "None" THEN span.style.fg
                                            ELSE base.fg
                /\ op.result[k].style.bg = IF span.style.bg # "None" THEN span.style.bg
                                            ELSE base.bg

\* styled_graphemes of a red run with a "\n" between two other graphemes, over
\* a base that sets both attributes
C15_Witness ==
    /\ op.name = "styled_graphemes"
    /\ op.style = [fg |-> "Yellow", bg |-> "Black"]
    /\ LET span == text[op.at[1]][op.at[2]]
       IN  /\ span.style = StyleRed
           /\ Len(span.content) = 3 /\ span.content[2] = NL
    /\ Len(op.result) = 2

\* s is what is left of t after dropping some of its first graphemes
IsSuffix(s, t) == Len(s) <= Len(t) /\ s = SubSeq(t, Len(t) - Len(s) + 1, Len(t))

\* the source line fits the width w: its display width is at most w and it
\* holds no line-break marker and no grapheme wider than w
Fits(spans, w) ==
    /\ SpansWidth(spans) <= w
    /\ NL \notin Range(LineStr(spans))
    /\ TooWide(LineStr(spans), w) = {}

(***************************************************************************)
(* C21: a source line that fits passes through unchanged.  When extend has *)
(* returned, for the source line fed last: if the width is at least 1 and  *)
(* the line fits, the output has exactly one line more than the output for *)
(* the source lines before it, and that line holds as many runs, with the  *)
(* same styles in the same order, each content what is left of the source  *)
(* content, the line's text being the source line's (with trimming: less   *)
(* its leading whitespace); an empty source line adds one empty line; and  *)
(* the output has at least as many lines as source lines were fed.         *)
(***************************************************************************)
C21_FittingLinePassesThrough ==
    (Wrapped /\ fed # <<>>)
    => LET spans == fed[Len(fed)]
           before == Wrap(SubSeq(fed, 1, Len(fed) - 1), self.width, self.trim)
           out == self.text[Len(self.text)]
       IN  /\ (self.width >= 1 /\ Fits(spans, self.width))
               => /\ Len(self.text) = Len(before.wt.text) + 1
                  /\ Len(out) = Len(spans)
                  /\ \A j \in 1..Len(out) :
                       /\ out[j].style = spans[j].style
                       /\ IsSuffix(out[j].content, spans[j].content)
                       /\ ~self.trim => out[j].content = spans[j].content
                  /\ LineStr(out) = IF self.trim THEN TrimStartStr(LineStr(spans))
                                    ELSE LineStr(spans)
           /\ spans = <<>>
               => (Len(self.text) = Len(before.wt.text) + 1 /\ out = <<>>)
           /\ Len(self.text) >= Len(fed)

\* a trimming engine of width 2 has taken, after an earlier source line, a
\* fitting line of two runs that begins with whitespace
C21_Witness ==
    /\ Wrapped /\ self.trim /\ self.width = 2
    /\ Len(fed) = 2 /\ fed[1] # <<>>
    /\ Len(fed[2]) = 2 /\ Fits(fed[2], 2)
    /\ fed[2][1].content = <<SP>>
    /\ fed[2][2].content = <<"a">> /\ fed[2][2].style = StyleRed
    /\ LineStr(self.text[Len(self.text)]) = <<"a">>

====
